---- MODULE Spec2Model ----
(***************************************************************************)
(* State-machine model of truenas_api/truenas_api.go: one Client with its  *)
(* pending-call registry, the listen() goroutine, the Jobs tracker, and a  *)
(* set of caller goroutines that invoke Call, CallWithJob, Ping, Login,    *)
(* SubscribeToJobs, Close and RemoveJob and wait on a Job's DoneCh.        *)
(*                                                                         *)
(* Granularity: one action per stretch of code between two points where    *)
(* the goroutine can block or where another goroutine can observe it.  A   *)
(* critical section that cannot block inside is one action guarded by the  *)
(* mutex being free; a critical section that blocks inside (the channel    *)
(* sends of listen and UpdateJobState, the transport write of Close) keeps *)
(* the mutex across actions.                                               *)
(*                                                                         *)
(* Environment: the server may send any message of Messages at any time,   *)
(* a transport read or write may fail at any time, and both fail once the  *)
(* connection was closed.  Call IDs and job IDs on the wire are JSON       *)
(* integers (spec.md section 6); json.Unmarshal yields them as float64 and *)
(* int(id) / int64(id) of an integral float64 is that integer.             *)
(***************************************************************************)
EXTENDS Integers, Sequences, FiniteSets, TLC

\* ------------------------------------------------------------ bounds
NumCallers == 2
MaxCalls == 2
MaxJob == 1
NumJobCallers == 1

Callers == 1..NumCallers
JobCallers == 1..NumJobCallers  \* the callers that start jobs in SpecJobs
Lsn == 0                       \* the goroutine running listen()
Threads == Callers \cup {Lsn}
Free == -1                     \* a mutex nobody holds
CallIds == 1..MaxCalls
JobIds == 1..MaxJob             \* the job IDs the server hands out as results
NotifyJobIds == 1..(MaxJob + 1) \* the job IDs of notifications: one is never handed out
NoId == 0                      \* a message without a numeric "id"

\* ------------------------------------------------------------ wire messages
\* A message is a record of the fields the code looks at.  A response
\* envelope carries "id" and either "result" (a number: result > 0 is that
\* number; NotNum: a string, which fres holds) or an "error" field
\* (hasError).
NotNum == 0
IsTrue == -1                   \* the "result" of a response is the boolean true

Resp(i, r, e) ==
    [kind |-> "resp", id |-> i, result |-> r, hasError |-> e, state |-> "",
     percent |-> 0, error |-> "", fres |-> IF r = NotNum /\ ~e THEN "pong" ELSE "",
     shape |-> "ok"]

\* A collection_update notification.  shape "ok": params, id, fields and
\* progress are present and well typed; "noEnvelope": params, params.id or
\* params.fields is missing or of another type; "noProgress":
\* fields.progress is missing or no object.  An absent fields.state is the
\* state "" and an absent percent is 0, as the comma-ok assertions give;
\* fres is fields.result and error is fields.error, "" when absent.
Update(j, st, pc_, fr, er, sh) ==
    [kind |-> "update", id |-> j, result |-> NotNum, hasError |-> FALSE,
     state |-> st, percent |-> pc_, error |-> er, fres |-> fr, shape |-> sh]

Garbage ==
    [kind |-> "garbage", id |-> NoId, result |-> NotNum, hasError |-> FALSE,
     state |-> "", percent |-> 0, error |-> "", fres |-> "", shape |-> "ok"]

NoMsg ==
    [kind |-> "none", id |-> NoId, result |-> NotNum, hasError |-> FALSE,
     state |-> "", percent |-> 0, error |-> "", fres |-> "", shape |-> "ok"]

Responses ==
    {Resp(i, r, FALSE) : i \in CallIds, r \in JobIds \cup {NotNum}}
    \cup {Resp(i, NotNum, TRUE) : i \in CallIds}
    \cup {Resp(NoId, NotNum, FALSE)}

Updates ==
    {Update(j, "RUNNING", 50, "", "", "ok") : j \in NotifyJobIds}
    \cup {Update(j, "SUCCESS", 100, "out", "", "ok") : j \in NotifyJobIds}
    \cup {Update(j, "FAILED", 50, "", "boom", "ok") : j \in NotifyJobIds}
    \cup {Update(j, "", 0, "", "", "ok") : j \in NotifyJobIds}
    \cup {Update(j, "RUNNING", 0, "", "", "noProgress") : j \in NotifyJobIds}
    \cup {Update(j, "RUNNING", 0, "", "", "noEnvelope") : j \in NotifyJobIds}

\* CallWithJob, line 308: response["result"].(float64) succeeds.
IsNumber(r) == r > 0

\* The responses a server gives to auth.login, core.ping and core.subscribe.
FacadeResponses == Responses \cup {Resp(i, IsTrue, FALSE) : i \in CallIds}

Messages == FacadeResponses \cup Updates \cup {Garbage}

Terminal(st) == st = "SUCCESS" \/ st = "FAILED"

\* ------------------------------------------------------------ state
VARIABLES
    isClosed,     \* Client.isClosed
    callID,       \* Client.callID
    issued,       \* history: the IDs Call has allocated so far
    late,         \* history: the IDs allocated after the closed flag was set
    atClose,      \* history: the IDs waiting, nothing buffered, when the flag was set
    pending,      \* keys of Client.pending; the channel of key k is respChan[k]
    respChan,     \* the buffered (capacity 1) response channel made by call k
    closeChan,    \* TRUE once Client.closeChan is closed
    mu,           \* holder of Client.mu, or Free
    connClosed,   \* conn.Close() was called
    writers,      \* goroutines inside a transport write
    shutdowns,    \* how often the shutdown branch of Close was entered
    jmu,          \* holder of Jobs.mu, or Free
    jobs,         \* Jobs.jobs: job id -> the Job object (0: no entry)
    owned,        \* keys of Jobs.ownedJobIDs
    jobObj,       \* the Job objects; object k is the one made by call k
    pc,           \* where each goroutine is
    op,           \* the operation a caller is running
    cred,         \* Login's arguments: which of them are non-empty
    req,          \* the method and params of the request a Call sends
    myID,         \* Call's local callID
    res,          \* Call's result payload
    err,          \* the error an operation returns ("" for nil)
    job,          \* the *Job a caller holds (0: none)
    cur,          \* listen's local message
    crashed       \* an unrecovered panic ended the process

vars ==
    <<isClosed, callID, issued, late, atClose, pending, respChan, closeChan, mu, connClosed, writers,
      shutdowns, jmu, jobs, owned, jobObj, pc, op, cred, req, myID, res, err, job, cur,
      crashed>>

clientVars == <<isClosed, callID, issued, late, atClose, pending, respChan, closeChan, mu, connClosed, shutdowns>>
jobVars == <<jmu, jobs, owned, jobObj>>
callerVars == <<op, cred, req, myID, res, err, job>>

\* Login's arguments username, password and apiKey, each TRUE when the
\* string is not empty; NoCred also stands for "not a Login".
NoCred == [username |-> FALSE, password |-> FALSE, apiKey |-> FALSE]

\* No request.
NoReq == [method |-> "", params |-> ""]

NewJob ==
    [State |-> "PENDING", Progress |-> 0, Finished |-> FALSE, Result |-> "nil",
     DoneClosed |-> FALSE, Callback |-> FALSE, ID |-> 0, Method |-> "none"]

Init ==
    /\ isClosed = FALSE
    /\ callID = 0
    /\ issued = {}
    /\ late = {}
    /\ atClose = {}
    /\ pending = {}
    /\ respChan = [k \in CallIds |-> <<>>]
    /\ closeChan = FALSE
    /\ mu = Free
    /\ connClosed = FALSE
    /\ writers = {}
    /\ shutdowns = 0
    /\ jmu = Free
    /\ jobs = [j \in NotifyJobIds |-> 0]
    /\ owned = {}
    /\ jobObj = [k \in CallIds |-> NewJob]
    /\ pc = [t \in Threads |-> IF t = Lsn THEN "loop" ELSE "idle"]
    /\ op = [p \in Callers |-> "none"]
    /\ cred = [p \in Callers |-> NoCred]
    /\ req = [p \in Callers |-> NoReq]
    /\ myID = [p \in Callers |-> 0]
    /\ res = [p \in Callers |-> NoMsg]
    /\ err = [t \in Threads |-> ""]
    /\ job = [p \in Callers |-> 0]
    /\ cur = NoMsg
    /\ crashed = FALSE

\* ------------------------------------------------------------ Call
\* An allocator that derives the ID from the number of calls in flight, so
\* that the ID of a call that has returned is handed out again.
NextCallIDReused(c) == Cardinality(pending) + 1

\* Call, line 195-196: c.callID++ ; callID := c.callID
NextCallID(c) == c + 1

\* A cleanup that empties the whole map.
DeletePendingAll(pend, id) == {}

\* Call, line 203: delete(c.pending, callID) in Call's deferred function
DeletePending(pend, id) == pend \ {id}

\* The method and the params of the one Call a facade operation makes:
\* SubscribeToJobs line 124-127, Ping line 328; for Call and CallWithJob
\* they are the caller's arguments.
MethodOf(o) ==
    IF o = "Ping" THEN "core.ping"
    ELSE IF o = "SubscribeToJobs" THEN "core.subscribe"
    ELSE "method"

ParamsOf(o) ==
    IF o = "Ping" THEN "[]"
    ELSE IF o = "SubscribeToJobs" THEN "[core.get_jobs]"
    ELSE "params"

\* Call, line 194-199 and 208-213: take c.mu, allocate the ID, make the
\* response channel, register it, release c.mu and build the request.  o is
\* the facade operation that makes the call, c its credentials (Login), r
\* the method and params.
Register(p, o, c, r) ==
    /\ ~crashed
    /\ pc[p] = "idle"
    /\ callID < MaxCalls
    /\ mu = Free
    /\ callID' = NextCallID(callID)
    /\ myID' = [myID EXCEPT ![p] = callID']
    /\ issued' = issued \cup {callID'}
    /\ late' = IF isClosed THEN late \cup {callID'} ELSE late
    /\ respChan' = [respChan EXCEPT ![callID'] = <<>>]
    /\ pending' = pending \cup {callID'}
    /\ op' = [op EXCEPT ![p] = o]
    /\ cred' = [cred EXCEPT ![p] = c]
    /\ req' = [req EXCEPT ![p] = r]
    /\ pc' = [pc EXCEPT ![p] = "write"]
    /\ UNCHANGED <<isClosed, atClose, closeChan, mu, connClosed, writers, shutdowns,
                   jobVars, res, err, job, cur, crashed>>

\* Call, CallWithJob, Ping or SubscribeToJobs starts its Call.
CallRegister(p, o) ==
    Register(p, o, NoCred, [method |-> MethodOf(o), params |-> ParamsOf(o)])

\* Call, line 216: c.conn.WriteJSON(request) starts; c.mu is not held.
CallWriteBegin(p) ==
    /\ ~crashed
    /\ pc[p] = "write"
    /\ writers' = writers \cup {p}
    /\ pc' = [pc EXCEPT ![p] = "writing"]
    /\ UNCHANGED <<clientVars, jobVars, callerVars, cur, crashed>>

\* A Call that goes on to wait for a response after its write failed.
CallWriteEndWaits(p) ==
    /\ ~crashed
    /\ pc[p] = "writing"
    /\ writers' = writers \ {p}
    /\ \/ /\ pc' = [pc EXCEPT ![p] = "wait"]
          /\ err' = err
       \/ /\ pc' = [pc EXCEPT ![p] = "wait"]
          /\ err' = [err EXCEPT ![p] = "failed to send call"]
    /\ UNCHANGED <<clientVars, jobVars, op, cred, req, myID, res, job, cur, crashed>>

\* A transport that forgets that a close frame was written or a write failed.
WriteErrNever == FALSE

\* Close, line 185: the connection has refused every write since
\* WriteMessage(CloseMessage) returned: gorilla/websocket keeps the first
\* write error, which is ErrCloseSent once a close frame was written, and
\* NextWriter, with which WriteJSON (line 216) starts, returns it.
WriteErrSet ==
    /\ isClosed
    /\ \A t \in Threads : pc[t] \notin {"closeWrite", "closeWriting"}

\* Call, line 216-218: WriteJSON returns; on an error (the value cannot be
\* encoded, the transport fails or refuses the write) Call returns "failed
\* to send call" through the deferred cleanup.
CallWriteEnd(p) ==
    /\ ~crashed
    /\ pc[p] = "writing"
    /\ writers' = writers \ {p}
    /\ \/ /\ ~WriteErrSet
          /\ pc' = [pc EXCEPT ![p] = "wait"]
          /\ err' = err
       \/ /\ pc' = [pc EXCEPT ![p] = "cleanup"]
          /\ err' = [err EXCEPT ![p] = "failed to send call"]
    /\ UNCHANGED <<clientVars, jobVars, op, cred, req, myID, res, job, cur, crashed>>

\* Call, line 222-223: the select receives from responseChan.
CallReceive(p) ==
    /\ ~crashed
    /\ pc[p] = "wait"
    /\ respChan[myID[p]] # <<>>
    /\ res' = [res EXCEPT ![p] = Head(respChan[myID[p]])]
    /\ respChan' = [respChan EXCEPT ![myID[p]] = Tail(@)]
    /\ pc' = [pc EXCEPT ![p] = "cleanup"]
    /\ UNCHANGED <<isClosed, callID, issued, late, atClose, pending, closeChan, mu, connClosed, writers,
                   shutdowns, jobVars, op, cred, req, myID, err, job, cur, crashed>>

\* A timeout branch that returns without the deferred cleanup.
CallTimeoutNoCleanup(p) ==
    /\ ~crashed
    /\ pc[p] = "wait"
    /\ err' = [err EXCEPT ![p] = "call timed out"]
    /\ pc' = [pc EXCEPT ![p] = "done"]
    /\ UNCHANGED <<clientVars, writers, jobVars, op, cred, req, myID, res, job, cur, crashed>>

\* Call, line 224-225: the timer of the select fires.
CallTimeout(p) ==
    /\ ~crashed
    /\ pc[p] = "wait"
    /\ err' = [err EXCEPT ![p] = "call timed out"]
    /\ pc' = [pc EXCEPT ![p] = "cleanup"]
    /\ UNCHANGED <<clientVars, writers, jobVars, op, cred, req, myID, res, job, cur, crashed>>

IsJobOp(o) == o = "CallWithJob" \/ o = "CallWithJobNil"

\* The facade operations that make one Call and interpret its response.
FacadeOps == {"Ping", "Login", "SubscribeToJobs"}

\* Where a goroutine continues when Call has returned to operation o.
AfterCall(o) ==
    IF IsJobOp(o) THEN "cwj" ELSE IF o \in FacadeOps THEN "parse" ELSE "done"

\* Call, line 201-205: the deferred function, run on every return path.
CallCleanup(p) ==
    /\ ~crashed
    /\ pc[p] = "cleanup"
    /\ mu = Free
    /\ pending' = DeletePending(pending, myID[p])
    /\ pc' = [pc EXCEPT ![p] = AfterCall(op[p])]
    /\ UNCHANGED <<isClosed, callID, issued, late, atClose, respChan, closeChan, mu, connClosed, writers,
                   shutdowns, jobVars, callerVars, cur, crashed>>

\* The operation has returned to its caller, which drops the results.
Return(p) ==
    /\ ~crashed
    /\ pc[p] \in {"done", "gotDone"}
    /\ pc' = [pc EXCEPT ![p] = "idle"]
    /\ op' = [op EXCEPT ![p] = "none"]
    /\ cred' = [cred EXCEPT ![p] = NoCred]
    /\ req' = [req EXCEPT ![p] = NoReq]
    /\ myID' = [myID EXCEPT ![p] = 0]
    /\ res' = [res EXCEPT ![p] = NoMsg]
    /\ err' = [err EXCEPT ![p] = ""]
    /\ job' = [job EXCEPT ![p] = 0]
    /\ UNCHANGED <<clientVars, writers, jobVars, cur, crashed>>

\* ------------------------------------------------------------ Close
\* Where Close returns to: a caller has its result, listen returns (line 242).
AfterClose(t) == IF t = Lsn THEN "stopped" ELSE "done"

\* A caller invokes Close and reaches c.mu.Lock() (line 177).
CloseCall(p) ==
    /\ ~crashed
    /\ pc[p] = "idle"
    /\ pc' = [pc EXCEPT ![p] = "closeLock"]
    /\ op' = [op EXCEPT ![p] = "Close"]
    /\ UNCHANGED <<clientVars, writers, jobVars, cred, req, myID, res, err, job, cur, crashed>>

\* Close, line 177-184: with c.mu taken, return nil when already closed;
\* otherwise set the flag and close c.closeChan (closing a closed channel
\* panics), keeping c.mu for the write that follows.
CloseEnter(t) ==
    /\ ~crashed
    /\ pc[t] = "closeLock"
    /\ mu = Free
    /\ IF isClosed
       THEN /\ pc' = [pc EXCEPT ![t] = AfterClose(t)]
            /\ err' = [err EXCEPT ![t] = ""]
            /\ UNCHANGED <<isClosed, atClose, closeChan, mu, shutdowns, crashed>>
       ELSE /\ isClosed' = TRUE
            /\ atClose' = {myID[p] : p \in {q \in Callers :
                                 pc[q] = "wait" /\ respChan[myID[q]] = <<>>}}
            /\ shutdowns' = shutdowns + 1
            /\ closeChan' = TRUE
            /\ crashed' = closeChan
            /\ mu' = t
            /\ pc' = [pc EXCEPT ![t] = "closeWrite"]
            /\ err' = err
    /\ UNCHANGED <<callID, issued, late, pending, respChan, connClosed, writers, jobVars,
                   op, cred, req, myID, res, job, cur>>

\* Close, line 185: c.conn.WriteMessage(CloseMessage, ...) starts, c.mu held.
CloseWriteBegin(t) ==
    /\ ~crashed
    /\ pc[t] = "closeWrite"
    /\ writers' = writers \cup {t}
    /\ pc' = [pc EXCEPT ![t] = "closeWriting"]
    /\ UNCHANGED <<clientVars, jobVars, callerVars, cur, crashed>>

\* Close, line 185-190: the write returns; on an error Close returns it,
\* otherwise it returns c.conn.Close().  The deferred Unlock releases c.mu.
CloseWriteEnd(t) ==
    /\ ~crashed
    /\ pc[t] = "closeWriting"
    /\ writers' = writers \ {t}
    /\ mu' = Free
    /\ pc' = [pc EXCEPT ![t] = AfterClose(t)]
    /\ \/ /\ err' = [err EXCEPT ![t] = "close frame not written"]
          /\ connClosed' = connClosed
       \/ /\ ~connClosed
          /\ connClosed' = TRUE
          /\ err' = [err EXCEPT ![t] = ""]
    /\ UNCHANGED <<isClosed, callID, issued, late, atClose, pending, respChan, closeChan, shutdowns,
                   jobVars, op, cred, req, myID, res, job, cur, crashed>>

\* ------------------------------------------------------------ Jobs
\* An ownership test that accepts every job ID.
IsOwnedJobAny(jobID) == TRUE

\* IsOwnedJob, line 58-63
IsOwnedJob(jobID) == jobID \in owned

\* An update that finishes the Job whatever the state is.
UpdatedJobAlwaysFinished(j, state, progress, result) ==
    [j EXCEPT !.State = state, !.Progress = progress, !.Finished = TRUE,
              !.Result = result]

\* UpdateJobState, line 112-116: the fields of the Job after the update.
UpdatedJob(j, state, progress, result) ==
    IF Terminal(state)
    THEN [j EXCEPT !.State = state, !.Progress = progress, !.Finished = TRUE,
                   !.Result = result]
    ELSE [j EXCEPT !.State = state, !.Progress = progress]

\* A RemoveJob that forgets the ownership of the job as well.
RemoveJobAndOwned(p, j) ==
    /\ ~crashed
    /\ pc[p] = "idle"
    /\ jmu = Free
    /\ jobs' = [jobs EXCEPT ![j] = 0]
    /\ owned' = owned \ {j}
    /\ UNCHANGED <<clientVars, writers, jmu, jobObj, pc, callerVars, cur, crashed>>

\* RemoveJob, line 98-102, called by a caller goroutine.
RemoveJob(p, j) ==
    /\ ~crashed
    /\ pc[p] = "idle"
    /\ jmu = Free
    /\ jobs' = [jobs EXCEPT ![j] = 0]
    /\ UNCHANGED <<clientVars, writers, jmu, owned, jobObj, pc, callerVars, cur, crashed>>

\* ------------------------------------------------------------ CallWithJob
\* A CallWithJob that takes any result for a job ID.
CwjParseAnyResult(p) ==
    /\ ~crashed
    /\ pc[p] = "cwj"
    /\ IF err[p] # ""
       THEN /\ pc' = [pc EXCEPT ![p] = "done"]
            /\ err' = err
       ELSE IF res[p].hasError
       THEN /\ pc' = [pc EXCEPT ![p] = "done"]
            /\ err' = [err EXCEPT ![p] = "API error"]
       ELSE /\ pc' = [pc EXCEPT ![p] = "addJob"]
            /\ err' = err
    /\ UNCHANGED <<clientVars, writers, jobVars, op, cred, req, myID, res, job, cur, crashed>>

\* CallWithJob, line 292-311: Call's error, an "error" field, or a result
\* that is no number ends the operation with an error and no Job.
CwjParse(p) ==
    /\ ~crashed
    /\ pc[p] = "cwj"
    /\ IF err[p] # ""
       THEN /\ pc' = [pc EXCEPT ![p] = "done"]
            /\ err' = err
       ELSE IF res[p].hasError
       THEN /\ pc' = [pc EXCEPT ![p] = "done"]
            /\ err' = [err EXCEPT ![p] = "API error"]
       ELSE IF ~IsNumber(res[p].result)
       THEN /\ pc' = [pc EXCEPT ![p] = "done"]
            /\ err' = [err EXCEPT ![p] = "unexpected response format for job"]
       ELSE /\ pc' = [pc EXCEPT ![p] = "addJob"]
            /\ err' = err
    /\ UNCHANGED <<clientVars, writers, jobVars, op, cred, req, myID, res, job, cur, crashed>>

\* CallWithJob, line 314 and AddJob, line 75-87: a new Job object replaces
\* whatever the map held under the ID.  The name of the operation stands
\* for the method argument, which the Job records.
AddJob(p) ==
    /\ ~crashed
    /\ pc[p] = "addJob"
    /\ jmu = Free
    /\ jobs' = [jobs EXCEPT ![res[p].result] = myID[p]]
    /\ jobObj' = [jobObj EXCEPT ![myID[p]] =
                        [NewJob EXCEPT !.ID = res[p].result, !.Method = op[p]]]
    /\ job' = [job EXCEPT ![p] = myID[p]]
    /\ pc' = [pc EXCEPT ![p] = "addOwned"]
    /\ UNCHANGED <<clientVars, writers, jmu, owned, op, cred, req, myID, res, err, cur, crashed>>

\* A CallWithJob that does not record the job ID as owned.
AddOwnedJobSkipped(p) ==
    /\ ~crashed
    /\ pc[p] = "addOwned"
    /\ jmu = Free
    /\ pc' = [pc EXCEPT ![p] = "setCallback"]
    /\ UNCHANGED <<clientVars, writers, jobVars, callerVars, cur, crashed>>

\* CallWithJob, line 317 and AddOwnedJob, line 51-55
AddOwnedJob(p) ==
    /\ ~crashed
    /\ pc[p] = "addOwned"
    /\ jmu = Free
    /\ owned' = owned \cup {res[p].result}
    /\ pc' = [pc EXCEPT ![p] = "setCallback"]
    /\ UNCHANGED <<clientVars, writers, jmu, jobs, jobObj, callerVars, cur, crashed>>

\* CallWithJob, line 320-323: job.Callback = callback, without a lock; the
\* callback is nil for the operation CallWithJobNil.
SetCallback(p) ==
    /\ ~crashed
    /\ pc[p] = "setCallback"
    /\ jobObj' = [jobObj EXCEPT ![job[p]].Callback = (op[p] = "CallWithJob")]
    /\ pc' = [pc EXCEPT ![p] = "done"]
    /\ UNCHANGED <<clientVars, writers, jmu, jobs, owned, callerVars, cur, crashed>>

\* The caller of CallWithJob receives from job.DoneCh (truenas_go.go line
\* 102-103, user_add_job.go line 69).
WaitDone(p) ==
    /\ ~crashed
    /\ pc[p] = "done"
    /\ job[p] # 0
    /\ pc' = [pc EXCEPT ![p] = "waitDone"]
    /\ UNCHANGED <<clientVars, writers, jobVars, callerVars, cur, crashed>>

\* The caller stops waiting (truenas_go.go line 111: time.After).
WaitGiveUp(p) ==
    /\ ~crashed
    /\ pc[p] = "waitDone"
    /\ pc' = [pc EXCEPT ![p] = "done"]
    /\ job' = [job EXCEPT ![p] = 0]
    /\ UNCHANGED <<clientVars, writers, jobVars, op, cred, req, myID, res, err, cur, crashed>>

\* ------------------------------------------------------------ facade
\* A facade that takes every response for a success.
FacadeErrorNone(o, m) == ""

\* Ping, line 341-345: the string Ping returns for the response m: the
\* "result" when it is a string, "" otherwise.
PingResult(m) == IF ~m.hasError /\ m.result = NotNum THEN m.fres ELSE ""

\* The error operation o returns for the response m that its Call returned
\* ("" for nil).  SubscribeToJobs, line 133-138, parses m and returns nil;
\* Ping, line 341-345, wants a string "result"; Login, line 377-386, returns
\* an error for an "error" field and for a "result" other than true.
FacadeError(o, m) ==
    IF o = "SubscribeToJobs" THEN ""
    ELSE IF o = "Ping"
    THEN IF ~m.hasError /\ m.result = NotNum THEN ""
         ELSE "unexpected ping response format"
    ELSE IF m.hasError THEN "login error"
    ELSE IF m.result = IsTrue THEN ""
    ELSE "login failed, unexpected response"

\* The arguments Login can be called with.
Creds == [username : BOOLEAN, password : BOOLEAN, apiKey : BOOLEAN]

\* A Login that falls back to auth.login whatever the credentials are.
LoginMethodNoCheck(c) ==
    IF c.apiKey THEN "auth.login_with_api_key" ELSE "auth.login"

\* Login, line 353-363: the method and the params chosen from the
\* credentials; "" when neither an API key nor both username and password
\* are given.
LoginMethod(c) ==
    IF c.apiKey THEN "auth.login_with_api_key"
    ELSE IF c.username /\ c.password THEN "auth.login"
    ELSE ""

LoginParams(c) ==
    IF c.apiKey THEN "[apiKey]"
    ELSE IF c.username /\ c.password THEN "[username, password]"
    ELSE ""

\* Login, line 349-366: without usable credentials Login returns an error
\* at once; otherwise it starts its Call with the method chosen.
Login(p, c) ==
    IF LoginMethod(c) = ""
    THEN /\ ~crashed
         /\ pc[p] = "idle"
         /\ pc' = [pc EXCEPT ![p] = "done"]
         /\ op' = [op EXCEPT ![p] = "Login"]
         /\ cred' = [cred EXCEPT ![p] = c]
         /\ err' = [err EXCEPT ![p] =
                       "either username/password or API key must be provided"]
         /\ UNCHANGED <<clientVars, writers, jobVars, req, myID, res, job, cur, crashed>>
    ELSE Register(p, "Login", c, [method |-> LoginMethod(c), params |-> LoginParams(c)])

\* SubscribeToJobs line 128-138, Ping line 330-345, Login line 367-386: the
\* error of the Call is returned (Login wraps it), otherwise the response
\* is interpreted.
FacadeParse(p) ==
    /\ ~crashed
    /\ pc[p] = "parse"
    /\ err' = [err EXCEPT ![p] =
                  IF err[p] # ""
                  THEN (IF op[p] = "Login" THEN "login failed" ELSE err[p])
                  ELSE FacadeError(op[p], res[p])]
    /\ pc' = [pc EXCEPT ![p] = "done"]
    /\ UNCHANGED <<clientVars, writers, jobVars, op, cred, req, myID, res, job, cur, crashed>>

\* ------------------------------------------------------------ listen
\* A dispatch loop that correlates by arrival order: the oldest pending call
\* gets the message.
DeliverKeyByArrival(m) ==
    IF pending = {} THEN m.id
    ELSE CHOOSE k \in pending : \A j \in pending : k <= j

\* listen, line 277-278: the key a response is looked up under, int(id).
DeliverKey(m) == m.id

\* listen, line 232-235: the select on c.closeChan with a default branch.
ListenSelect ==
    /\ ~crashed
    /\ pc[Lsn] = "loop"
    /\ pc' = [pc EXCEPT ![Lsn] = IF closeChan THEN "stopped" ELSE "read"]
    /\ cur' = NoMsg
    /\ UNCHANGED <<clientVars, writers, jobVars, callerVars, crashed>>

\* A dispatch loop that looks a message's id up among the pending calls
\* before it tests the method.
ListenReadIdFirst(m) ==
    /\ ~crashed
    /\ pc[Lsn] = "read"
    /\ ~connClosed
    /\ IF m.kind = "garbage" \/ (m.kind = "resp" /\ m.id = NoId)
       THEN /\ pc' = [pc EXCEPT ![Lsn] = "loop"]
            /\ cur' = m
            /\ crashed' = crashed
       ELSE IF m.id \in pending
       THEN /\ pc' = [pc EXCEPT ![Lsn] = "deliverLock"]
            /\ cur' = m
            /\ crashed' = crashed
       ELSE IF m.kind = "update" /\ m.shape = "noEnvelope"
       THEN /\ crashed' = TRUE
            /\ cur' = m
            /\ pc' = pc
       ELSE /\ cur' = m
            /\ pc' = [pc EXCEPT ![Lsn] = IF m.kind = "update" THEN "isOwned" ELSE "deliverLock"]
            /\ crashed' = crashed
    /\ UNCHANGED <<clientVars, writers, jobVars, callerVars>>

\* A dispatch loop that treats an unparsable message like a read error.
ListenReadGarbageFatal(m) ==
    /\ ~crashed
    /\ pc[Lsn] = "read"
    /\ ~connClosed
    /\ IF m.kind = "garbage"
       THEN /\ pc' = [pc EXCEPT ![Lsn] = "closeLock"]
            /\ cur' = m
            /\ crashed' = crashed
       ELSE IF m.kind = "resp" /\ m.id = NoId
       THEN /\ pc' = [pc EXCEPT ![Lsn] = "loop"]
            /\ cur' = m
            /\ crashed' = crashed
       ELSE /\ cur' = m
            /\ pc' = [pc EXCEPT ![Lsn] = IF m.kind = "update" THEN "isOwned" ELSE "deliverLock"]
            /\ crashed' = crashed
    /\ UNCHANGED <<clientVars, writers, jobVars, callerVars>>

\* listen, line 236-284: ReadMessage returns m, which is parsed and
\* classified.  An unparsable message and a response without a numeric id
\* end the iteration; a collection_update whose params, params.id or
\* params.fields fail their type assertion (line 252-254) panics.
ListenRead(m) ==
    /\ ~crashed
    /\ pc[Lsn] = "read"
    /\ ~connClosed
    /\ IF m.kind = "garbage" \/ (m.kind = "resp" /\ m.id = NoId)
       THEN /\ pc' = [pc EXCEPT ![Lsn] = "loop"]
            /\ cur' = m
            /\ crashed' = crashed
       ELSE IF m.kind = "update" /\ m.shape = "noEnvelope"
       THEN /\ crashed' = TRUE
            /\ cur' = m
            /\ pc' = pc
       ELSE /\ cur' = m
            /\ pc' = [pc EXCEPT ![Lsn] = IF m.kind = "update" THEN "isOwned" ELSE "deliverLock"]
            /\ crashed' = crashed
    /\ UNCHANGED <<clientVars, writers, jobVars, callerVars>>

\* A dispatch loop that tries again after a failed read.
ListenReadErrorRetry ==
    /\ ~crashed
    /\ pc[Lsn] = "read"
    /\ pc' = [pc EXCEPT ![Lsn] = "loop"]
    /\ UNCHANGED <<clientVars, writers, jobVars, callerVars, cur, crashed>>

\* listen, line 236-242: ReadMessage fails; listen calls c.Close().
ListenReadError ==
    /\ ~crashed
    /\ pc[Lsn] = "read"
    /\ pc' = [pc EXCEPT ![Lsn] = "closeLock"]
    /\ UNCHANGED <<clientVars, writers, jobVars, callerVars, cur, crashed>>

\* listen, line 257-258: IsOwnedJob under j.mu; for an owned job the
\* assertion on fields["progress"] panics when it is absent.
ListenIsOwned ==
    /\ ~crashed
    /\ pc[Lsn] = "isOwned"
    /\ jmu = Free
    /\ IF ~IsOwnedJob(cur.id)
       THEN /\ pc' = [pc EXCEPT ![Lsn] = "loop"]
            /\ cur' = NoMsg
            /\ crashed' = crashed
       ELSE IF cur.shape = "noProgress"
       THEN /\ crashed' = TRUE
            /\ UNCHANGED <<pc, cur>>
       ELSE /\ pc' = [pc EXCEPT ![Lsn] = "update"]
            /\ UNCHANGED <<cur, crashed>>
    /\ UNCHANGED <<clientVars, writers, jobVars, callerVars>>

\* listen, line 266 and UpdateJobState, line 105-117: under j.mu, return
\* when the map has no Job; otherwise store state and progress and, for a
\* terminal state, Finished and Result, then send on DoneCh: the send on a
\* closed channel panics, the send on the open unbuffered channel waits for
\* a receiver with j.mu held.
ListenUpdateJobState ==
    /\ ~crashed
    /\ pc[Lsn] = "update"
    /\ jmu = Free
    /\ LET k == jobs[cur.id] IN
       IF k = 0
       THEN /\ pc' = [pc EXCEPT ![Lsn] = "callback"]
            /\ UNCHANGED <<jmu, jobObj, crashed>>
       ELSE /\ jobObj' = [jobObj EXCEPT ![k] = UpdatedJob(@, cur.state, cur.percent, cur.fres)]
            /\ IF ~Terminal(cur.state)
               THEN /\ pc' = [pc EXCEPT ![Lsn] = "callback"]
                    /\ UNCHANGED <<jmu, crashed>>
               ELSE IF jobObj[k].DoneClosed
               THEN /\ crashed' = TRUE
                    /\ UNCHANGED <<jmu, pc>>
               ELSE /\ jmu' = Lsn
                    /\ pc' = [pc EXCEPT ![Lsn] = "sendDone"]
                    /\ crashed' = crashed
    /\ UNCHANGED <<clientVars, writers, jobs, owned, callerVars, cur>>

\* UpdateJobState, line 117-120: a caller receiving from DoneCh takes the
\* error string; ProgressCh and DoneCh are closed and j.mu is released.
ListenSendDone(p) ==
    /\ ~crashed
    /\ pc[Lsn] = "sendDone"
    /\ pc[p] = "waitDone"
    /\ job[p] = jobs[cur.id]
    /\ err' = [err EXCEPT ![p] = cur.error]
    /\ jobObj' = [jobObj EXCEPT ![job[p]].DoneClosed = TRUE]
    /\ jmu' = Free
    /\ pc' = [pc EXCEPT ![Lsn] = "callback", ![p] = "gotDone"]
    /\ UNCHANGED <<clientVars, writers, jobs, owned, op, cred, req, myID, res, job, cur, crashed>>

\* listen, line 269-270: c.jobs.jobs[jobID] is read without j.mu; the
\* callback is invoked when the Job is there and has one.
ListenCallback ==
    /\ ~crashed
    /\ pc[Lsn] = "callback"
    /\ IF jobs[cur.id] # 0 /\ jobObj[jobs[cur.id]].Callback
       THEN /\ pc' = [pc EXCEPT ![Lsn] = "inCallback"]
            /\ cur' = cur
       ELSE /\ pc' = [pc EXCEPT ![Lsn] = "loop"]
            /\ cur' = NoMsg
    /\ UNCHANGED <<clientVars, writers, jobVars, callerVars, crashed>>

\* listen, line 270-273: job.Callback(percent, state, description) returns.
ListenCallbackReturn ==
    /\ ~crashed
    /\ pc[Lsn] = "inCallback"
    /\ pc' = [pc EXCEPT ![Lsn] = "loop"]
    /\ cur' = NoMsg
    /\ UNCHANGED <<clientVars, writers, jobVars, callerVars, crashed>>

\* listen, line 279: c.mu.Lock()
ListenDeliverLock ==
    /\ ~crashed
    /\ pc[Lsn] = "deliverLock"
    /\ mu = Free
    /\ mu' = Lsn
    /\ pc' = [pc EXCEPT ![Lsn] = "deliver"]
    /\ UNCHANGED <<isClosed, callID, issued, late, atClose, pending, respChan, closeChan, connClosed,
                   shutdowns, writers, jobVars, callerVars, cur, crashed>>

\* listen, line 280-283: with c.mu held, send the message on the channel
\* registered under the ID, if any, and release c.mu.  The send waits while
\* the channel's one slot is taken.
ListenDeliver ==
    /\ ~crashed
    /\ pc[Lsn] = "deliver"
    /\ LET k == DeliverKey(cur) IN
       IF k \in pending
       THEN /\ Len(respChan[k]) < 1
            /\ respChan' = [respChan EXCEPT ![k] = Append(@, cur)]
       ELSE respChan' = respChan
    /\ mu' = Free
    /\ pc' = [pc EXCEPT ![Lsn] = "loop"]
    /\ cur' = NoMsg
    /\ UNCHANGED <<isClosed, callID, issued, late, atClose, pending, closeChan, connClosed, shutdowns,
                   writers, jobVars, callerVars, crashed>>

\* ------------------------------------------------------------ specifications
\* The steps of a Call in progress and of an operation returning.
CallStep(p) ==
    \/ CallWriteBegin(p)
    \/ CallWriteEnd(p)
    \/ CallReceive(p)
    \/ CallTimeout(p)
    \/ CallCleanup(p)
    \/ Return(p)

CloseStep(t) ==
    \/ CloseEnter(t)
    \/ CloseWriteBegin(t)
    \/ CloseWriteEnd(t)

\* The steps of listen that serve responses and the connection's end.
ListenCallStep ==
    \/ ListenSelect
    \/ ListenReadError
    \/ ListenDeliverLock
    \/ ListenDeliver

\* The steps of listen that serve collection_update notifications.
ListenJobStep ==
    \/ ListenIsOwned
    \/ ListenUpdateJobState
    \/ \E p \in JobCallers : ListenSendDone(p)
    \/ ListenCallback
    \/ ListenCallbackReturn

\* The steps of CallWithJob after its Call, and of the Job's user.
JobStep(p) ==
    \/ CwjParse(p)
    \/ AddJob(p)
    \/ AddOwnedJob(p)
    \/ SetCallback(p)
    \/ WaitDone(p)
    \/ WaitGiveUp(p)
    \/ \E j \in JobIds : RemoveJob(p, j)

\* Callers that issue plain Calls and Close the client, against a server
\* that sends responses and unparsable messages.
NextCalls ==
    \/ \E p \in Callers : CallRegister(p, "Call") \/ CallStep(p) \/ CloseCall(p)
    \/ \E t \in Threads : CloseStep(t)
    \/ ListenCallStep
    \/ \E m \in Responses \cup {Garbage} : ListenRead(m)

SpecCalls == Init /\ [][NextCalls]_vars

\* SpecCalls with the scheduling Go gives: a goroutine that can run does
\* run, a timer fires, a transport write returns, and a goroutine waiting
\* in Lock() gets the mutex if it is released again and again.
FairCalls ==
    /\ SpecCalls
    /\ \A p \in Callers : WF_vars(CallStep(p)) /\ SF_vars(CallCleanup(p))
    /\ \A t \in Threads : WF_vars(CloseWriteBegin(t) \/ CloseWriteEnd(t))
    /\ WF_vars(ListenSelect \/ ListenDeliver)
    /\ SF_vars(ListenDeliverLock)

\* Callers that start jobs with CallWithJob and wait for them, against a
\* server that sends responses and collection_update notifications.
NextJobs ==
    \/ \E p \in JobCallers :
          \/ \E o \in {"CallWithJob", "CallWithJobNil"} : CallRegister(p, o)
          \/ CallStep(p)
          \/ JobStep(p)
    \/ CloseStep(Lsn)
    \/ ListenCallStep
    \/ ListenJobStep
    \/ \E m \in Responses \cup Updates : ListenRead(m)

SpecJobs == Init /\ [][NextJobs]_vars

\* A caller that uses the facade operations Ping, Login, SubscribeToJobs and
\* CallWithJob one after the other, against a server that answers with
\* results of every shape and with error envelopes.
NextFacade ==
    \/ \E p \in JobCallers :
          \/ \E o \in {"Ping", "SubscribeToJobs", "CallWithJob"} : CallRegister(p, o)
          \/ \E c \in Creds : Login(p, c)
          \/ CallStep(p)
          \/ FacadeParse(p)
          \/ JobStep(p)
    \/ CloseStep(Lsn)
    \/ ListenCallStep
    \/ \E m \in FacadeResponses \cup {Garbage} : ListenRead(m)

SpecFacade == Init /\ [][NextFacade]_vars

\* ------------------------------------------------------------ properties
InCall(p) == pc[p] \in {"write", "writing", "wait", "cleanup"}

\* C1: a Call that returns a payload returns a response whose id is the ID
\* the Call allocated, and it returns either a payload or an error, never
\* both; every message waiting in a call's channel carries that call's ID.
C1_ResponsePairing ==
    /\ \A p \in Callers :
          res[p] # NoMsg =>
             /\ res[p].kind = "resp"
             /\ res[p].id = myID[p]
             /\ err[p] = ""
    /\ \A k \in CallIds : \A i \in 1..Len(respChan[k]) : respChan[k][i].id = k

\* Two calls are in flight and the later one got its response first.
C1_Witness ==
    \E p, q \in Callers :
        /\ pc[p] = "done" /\ res[p] # NoMsg
        /\ pc[q] = "wait" /\ myID[q] < myID[p]
\* C2: a Call that has returned "call timed out" has no entry in the pending
\* map and took no payload, and when listen handles a response whose ID has
\* no entry, the map, every response channel and every caller's result stay
\* as they are.
C2_TimedOutCallReleased ==
    [][ /\ (\A p \in Callers :
               (pc[p] = "done" /\ err[p] = "call timed out") =>
                   (myID[p] \notin pending /\ res[p] = NoMsg))'
        /\ (pc[Lsn] = "deliver" /\ pc'[Lsn] # "deliver" /\ cur.id \notin pending) =>
               (pending' = pending /\ respChan' = respChan /\ res' = res)
      ]_vars

\* listen is about to handle a response to a call that has timed out, while
\* another call waits with a response in its channel.
C2_Witness ==
    \E p, q \in Callers :
        /\ pc[p] = "done" /\ err[p] = "call timed out"
        /\ pc[Lsn] = "deliver" /\ cur.id = myID[p]
        /\ pc[q] = "wait" /\ respChan[myID[q]] # <<>>

\* C8: every Call gets the counter's value after an increment by one: 1 for
\* the first Call, otherwise an ID greater than every ID handed out before,
\* whatever became of the earlier calls and of the connection.
C8_FreshCallIds ==
    [][ \A p \in Callers :
           (pc[p] = "idle" /\ pc'[p] = "write") =>
               /\ callID' = callID + 1
               /\ myID'[p] = callID'
               /\ myID'[p] \notin issued
               /\ \A i \in issued : myID'[p] > i
               /\ issued = {} => myID'[p] = 1
      ]_vars

\* The second ID is handed out on a closed connection after the first call
\* has timed out.
C8_Witness ==
    \E p, q \in Callers :
        /\ pc[p] = "write" /\ myID[p] = 2
        /\ pc[q] = "done" /\ err[q] = "call timed out"
        /\ isClosed

\* C9: the keys of the pending map are exactly the IDs of the Calls between
\* registration and return, two such Calls never share an ID, and the map
\* is empty when no Call is in progress.
C9_PendingIsInFlight ==
    /\ pending = {myID[p] : p \in {q \in Callers : InCall(q)}}
    /\ \A p, q \in Callers : (p # q /\ InCall(p) /\ InCall(q)) => myID[p] # myID[q]
    /\ (\A p \in Callers : ~InCall(p)) => pending = {}

\* One call has returned with its payload, another with a send error, and
\* the map is empty again.
C9_Witness ==
    \E p, q \in Callers :
        /\ pc[p] = "done" /\ res[p] # NoMsg
        /\ pc[q] = "done" /\ err[q] = "failed to send call"
        /\ pending = {}
\* listen waits in the send of line 281 with c.mu held: the channel's slot
\* is taken and the Call that owns the channel has left its select, so no
\* goroutine will ever receive from it.
DeliveryStuck ==
    /\ pc[Lsn] = "deliver"
    /\ DeliverKey(cur) \in pending
    /\ Len(respChan[DeliverKey(cur)]) >= 1
    /\ \A p \in Callers : myID[p] = DeliverKey(cur) => pc[p] \notin {"write", "writing", "wait"}

\* C3: the delivery step of listen never blocks for good: whenever listen
\* holds c.mu to deliver a response, the send can complete or the receiving
\* Call can still take the message that fills the channel, and no Call
\* waits for c.mu in its deferred cleanup behind a blocked delivery.
C3_DeliveryNeverBlocks ==
    /\ ~DeliveryStuck
    /\ \A p \in Callers : ~(pc[p] = "cleanup" /\ mu = Lsn /\ DeliveryStuck)

\* C4: any number of Close invocations, by callers and by listen, enter the
\* shutdown branch at most once and exactly once when all have returned,
\* never close c.closeChan twice (a panic), return nil when the connection
\* is closed already, and none waits for c.mu behind a holder that will
\* never release it.
C4_CloseIdempotent ==
    /\ shutdowns <= 1
    /\ ~crashed
    /\ isClosed <=> shutdowns = 1
    /\ closeChan <=> shutdowns = 1
    /\ \A t \in Threads : ~(pc[t] = "closeLock" /\ DeliveryStuck)

\* The part of C4 that is about Close alone: one shutdown, one close of the
\* signal channel, no panic.
C4_ShutdownOnce ==
    /\ shutdowns <= 1
    /\ ~crashed
    /\ isClosed <=> shutdowns = 1
    /\ closeChan <=> shutdowns = 1

\* C10: at most one goroutine is inside a transport write at any time.
C10_WritesSerialized == Cardinality(writers) <= 1
\* C5: listen goes on to UpdateJobState, the DoneCh send or the callback
\* only for a job ID in the owned set, and the step that finds the ID of a
\* notification not owned ends the handling of that notification with the
\* job map, the owned set, every Job object and every caller's results
\* unchanged.
C5_UnownedIgnored ==
    [][ /\ (pc[Lsn] \in {"update", "sendDone", "callback", "inCallback"} =>
               cur.id \in owned)'
        /\ (pc[Lsn] = "isOwned" /\ pc'[Lsn] # "isOwned" /\ cur.id \notin owned) =>
               /\ pc'[Lsn] = "loop"
               /\ UNCHANGED <<jobs, owned, jobObj, jmu, err, job, crashed>>
      ]_vars

\* listen tests a terminal notification for a job ID that has a Job in the
\* map and is not owned (yet).
C5_Witness ==
    /\ pc[Lsn] = "isOwned"
    /\ cur.id \notin owned
    /\ Terminal(cur.state)
    /\ jobs[cur.id] # 0

\* C6: once a Job is finished in state SUCCESS or FAILED, no step changes
\* its state, progress, result or finished flag, no step panics on a send
\* to its closed DoneCh, and its channels are closed at most once.
C6_TerminalIsFinal ==
    [][ \A k \in CallIds :
           (jobObj[k].Finished /\ Terminal(jobObj[k].State)) =>
               /\ jobObj'[k].State = jobObj[k].State
               /\ jobObj'[k].Progress = jobObj[k].Progress
               /\ jobObj'[k].Result = jobObj[k].Result
               /\ jobObj'[k].Finished = jobObj[k].Finished
               /\ (jobObj[k].DoneClosed => jobObj'[k].DoneClosed)
               /\ (pc[Lsn] = "update" /\ jobs[cur.id] = k) => crashed' = crashed
      ]_vars

\* listen waits in the send on DoneCh (line 117) with j.mu held and no
\* caller holds the Job any more or can get to receive from its DoneCh.
DoneSendStuck ==
    /\ pc[Lsn] = "sendDone"
    /\ \A p \in JobCallers :
          ~(job[p] = jobs[cur.id] /\ pc[p] \in {"setCallback", "done", "waitDone"})

\* C7: the send of a Job's completion signal never blocks listen for good.
C7_CompletionNeverBlocks == ~DoneSendStuck

\* C11: a Call whose request was sent and that waits in its select
\* eventually returns, with the delivered payload and no error or with the
\* error "call timed out".
C11_SentCallReturns ==
    \A p \in Callers :
        (pc[p] = "wait") ~>
            (pc[p] = "done" /\ ((res[p] # NoMsg /\ err[p] = "") \/
                                (res[p] = NoMsg /\ err[p] = "call timed out")))

\* C12: a Call whose transport write fails goes straight to its deferred
\* cleanup with the error "failed to send call", without entering the
\* select; the cleanup removes the Call's own key from the pending map and
\* nothing else, and the Call returns that error and no payload.
C12_SendErrorReleases ==
    [][ \A p \in Callers :
           /\ (pc[p] = "writing" /\ err'[p] = "failed to send call") =>
                  pc'[p] = "cleanup"
           /\ (err[p] = "failed to send call" /\ pc[p] = "cleanup" /\ pc'[p] # "cleanup") =>
                  /\ pending' = pending \ {myID[p]}
                  /\ respChan' = respChan
                  /\ pc'[p] = "done"
                  /\ err'[p] = "failed to send call"
           /\ (pc[p] = "done" /\ err[p] = "failed to send call" =>
                  myID[p] \notin pending /\ res[p] = NoMsg)'
           /\ err'[p] = "failed to send call" => pc'[p] # "wait"
      ]_vars

\* On an open connection one Call has returned a send error while another
\* still waits with its entry in the map.
C12_Witness ==
    \E p, q \in Callers :
        /\ pc[p] = "done" /\ err[p] = "failed to send call"
        /\ pc[q] = "wait" /\ myID[q] \in pending
        /\ ~isClosed

C14_UpdateJobState ==
    [][ /\ (pc[Lsn] = "update" /\ (pc'[Lsn] # "update" \/ crashed') /\ jobs[cur.id] # 0) =>
              LET k == jobs[cur.id] IN
              /\ jobObj'[k].State = cur.state
              /\ jobObj'[k].Progress = cur.percent
              /\ IF Terminal(cur.state)
                 THEN /\ jobObj'[k].Finished
                      /\ jobObj'[k].Result = cur.fres
                      /\ pc'[Lsn] = "sendDone" \/ crashed'
                 ELSE /\ jobObj'[k].Finished = jobObj[k].Finished
                      /\ jobObj'[k].Result = jobObj[k].Result
                      /\ jobObj'[k].DoneClosed = jobObj[k].DoneClosed
                      /\ pc'[Lsn] = "callback"
                      /\ jmu' = Free
                      /\ ~crashed'
        /\ \A k \in CallIds :
              (jobObj'[k].DoneClosed /\ ~jobObj[k].DoneClosed) =>
                  (pc[Lsn] = "sendDone" /\ Terminal(cur.state) /\ jobs[cur.id] = k)
      ]_vars

\* UpdateJobState has stored a RUNNING notification in a Job that is in the
\* map and is not finished.
C14_Witness ==
    /\ pc[Lsn] = "callback"
    /\ cur.state = "RUNNING"
    /\ jobs[cur.id] # 0
    /\ jobObj[jobs[cur.id]].State = "RUNNING"
    /\ jobObj[jobs[cur.id]].Progress = 50
    /\ ~jobObj[jobs[cur.id]].Finished

\* C15: for an owned Job that CallWithJob created with a callback, listen
\* ends the handling of every notification it has applied to the Job by
\* invoking the callback, and the receiver of the completion signal gets
\* the error string of the terminal notification from a finished Job.
C15_CallbackPerNotification ==
    [][ /\ \A p \in JobCallers :
              (/\ pc[Lsn] = "callback" /\ pc'[Lsn] # "callback"
               /\ op[p] = "CallWithJob" /\ job[p] # 0 /\ job[p] = jobs[cur.id]
               /\ cur.id \in owned) =>
                  pc'[Lsn] = "inCallback"
        /\ \A p \in JobCallers :
              (pc[p] = "waitDone" /\ pc'[p] = "gotDone") =>
                  (err'[p] = cur.error /\ jobObj[job[p]].Finished)
      ]_vars

\* C16: AddJob run by CallWithJob puts a new Job under the job ID J of the
\* response: PENDING, progress 0, unfinished, carrying J and the method;
\* AddOwnedJob adds J to the owned set, which never shrinks; when
\* CallWithJob returns, the Job it returns carries J, the method and the
\* callback of the call and J is owned.  An entry of the job map changes
\* only in AddJob and RemoveJob, so that the map holds under J the Job
\* returned, as is checked at the return when no other goroutine uses the
\* tracker.  A Job's state, progress, result and finished flag change only
\* in UpdateJobState run by listen for a notification with the Job's ID.
C16_JobRegistered ==
    [][ /\ \A p \in JobCallers :
              /\ (pc[p] = "addJob" /\ pc'[p] = "addOwned") =>
                     LET J == res[p].result
                         k == job'[p]
                     IN /\ k # 0 /\ J \in JobIds
                        /\ jobs'[J] = k
                        /\ \A i \in NotifyJobIds \ {J} : jobs'[i] = jobs[i]
                        /\ jobObj'[k].State = "PENDING"
                        /\ jobObj'[k].Progress = 0
                        /\ ~jobObj'[k].Finished
                        /\ ~jobObj'[k].Callback
                        /\ jobObj'[k].ID = J
                        /\ jobObj'[k].Method = op[p]
              /\ (pc[p] = "addOwned" /\ pc'[p] = "setCallback") =>
                     (owned' = owned \cup {res[p].result} /\ jobs' = jobs)
              /\ (pc[p] = "setCallback" /\ pc'[p] = "done") =>
                     LET J == res[p].result
                         k == job'[p]
                     IN /\ err'[p] = "" /\ k # 0 /\ k = job[p]
                        /\ J \in owned'
                        /\ jobs' = jobs
                        /\ JobCallers = {p} => jobs'[J] = k
                        /\ jobObj'[k].ID = J
                        /\ jobObj'[k].Method = op[p]
                        /\ jobObj'[k].Callback = (op[p] = "CallWithJob")
        /\ owned \subseteq owned'
        /\ \A i \in NotifyJobIds :
              jobs'[i] # jobs[i] =>
                  \E p \in JobCallers :
                      \/ pc[p] = "addJob" /\ pc'[p] = "addOwned" /\ res[p].result = i
                      \/ pc[p] = "idle" /\ pc'[p] = "idle" /\ jobs'[i] = 0
        /\ \A k \in CallIds :
              (\/ jobObj'[k].State # jobObj[k].State
               \/ jobObj'[k].Progress # jobObj[k].Progress
               \/ jobObj'[k].Result # jobObj[k].Result
               \/ jobObj'[k].Finished # jobObj[k].Finished) =>
                  \/ pc[Lsn] = "update" /\ jobs[cur.id] = k /\ (pc'[Lsn] # "update" \/ crashed')
                  \/ \E p \in JobCallers : pc[p] = "addJob" /\ myID[p] = k /\ pc'[p] = "addOwned"
      ]_vars

\* CallWithJob has returned a Job with a callback that is in the map and
\* owned, and a notification has already moved it to RUNNING.
C16_Witness ==
    \E p \in JobCallers :
        /\ pc[p] = "done" /\ op[p] = "CallWithJob" /\ err[p] = "" /\ job[p] # 0
        /\ jobs[res[p].result] = job[p]
        /\ res[p].result \in owned
        /\ jobObj[job[p]].Callback
        /\ jobObj[job[p]].State = "RUNNING"

\* C17: when the response to CallWithJob's call has a result that is no
\* number, CallWithJob returns "unexpected response format for job" and no
\* Job; no step of the operation, from the registration of its call to its
\* return, changes the job map, the owned set or a Job, and AddJob is
\* reached only with a numeric result.
C17_BadJobResult ==
    [][ \A p \in JobCallers :
           /\ (/\ pc[p] = "cwj" /\ pc'[p] # "cwj"
               /\ err[p] = "" /\ ~res[p].hasError /\ ~IsNumber(res[p].result)) =>
                  /\ pc'[p] = "done"
                  /\ err'[p] = "unexpected response format for job"
                  /\ job'[p] = 0
                  /\ UNCHANGED <<jobs, owned, jobObj>>
           /\ (pc[p] \in {"idle", "write", "writing", "wait", "cleanup"}
                  /\ pc'[p] # pc[p]
                  /\ pc'[p] \in {"write", "writing", "wait", "cleanup", "cwj"}) =>
                  UNCHANGED <<jobs, owned>>
           /\ pc'[p] = "addJob" =>
                  (res'[p].result \in JobIds /\ ~res'[p].hasError /\ err'[p] = "")
           /\ (pc[p] = "done" /\ err[p] = "unexpected response format for job" =>
                  job[p] = 0)'
      ]_vars

\* A first CallWithJob has registered a job; a second one got a result
\* that is no number and has returned the format error and no Job.
C17_Witness ==
    \E p \in JobCallers :
        /\ pc[p] = "done" /\ IsJobOp(op[p])
        /\ err[p] = "unexpected response format for job"
        /\ res[p].result = NotNum
        /\ job[p] = 0
        /\ owned # {} /\ \E j \in JobIds : jobs[j] # 0

\* C18: a facade operation that interprets the response (Login, Ping,
\* SubscribeToJobs, CallWithJob) and whose Call returned an envelope with
\* an "error" field returns an error, and CallWithJob returns no Job then.
C18_ErrorEnvelopeSurfaces ==
    \A p \in JobCallers :
        (/\ pc[p] = "done"
         /\ op[p] \in FacadeOps \cup {"CallWithJob"}
         /\ res[p].hasError) =>
            (err[p] # "" /\ job[p] = 0)

\* C19: when listen reads a message that cannot be parsed, that step ends
\* the iteration and changes nothing else: the pending map, the response
\* channels, the job map, the owned set, the Jobs, the closed flag, the
\* close signal, the connection and every caller's results are as before;
\* from there listen goes back to reading unless the client was closed in
\* the meantime.
C19_GarbageDropped ==
    [][ /\ (pc[Lsn] = "read" /\ pc'[Lsn] # "read" /\ cur'.kind = "garbage") =>
              /\ pc'[Lsn] = "loop"
              /\ UNCHANGED <<pending, respChan, jobs, owned, jobObj, isClosed,
                             closeChan, connClosed, shutdowns, mu, jmu, res, err,
                             crashed>>
        /\ (pc[Lsn] = "loop" /\ cur.kind = "garbage" /\ pc'[Lsn] # "loop") =>
              pc'[Lsn] = (IF closeChan THEN "stopped" ELSE "read")
      ]_vars

\* listen has dropped an unparsable message while a Call waits for its
\* response on an open connection.
C19_Witness ==
    /\ pc[Lsn] = "loop" /\ cur.kind = "garbage"
    /\ ~isClosed /\ ~crashed
    /\ \E p \in Callers : pc[p] = "wait" /\ myID[p] \in pending

\* C20: a collection_update notification with missing or mistyped entries
\* never panics listen, and a Job never gets the empty state: an absent
\* state is stored as "unknown".
C20_MalformedUpdateTolerated ==
    /\ ~(crashed /\ cur.kind = "update" /\ cur.shape # "ok")
    /\ \A k \in CallIds : jobObj[k].State # ""

\* C21: listen leaves ReadMessage either with a message or, on a read
\* error, towards Close; from there it only runs Close and stops, handles
\* no message any more and never reads again; when it has stopped the
\* closed flag is set and the close signal raised, and neither the flag
\* nor the closed transport is ever reset (no reconnect).
C21_ReadErrorStops ==
    [][ /\ (pc[Lsn] = "read" /\ pc'[Lsn] # "read") =>
              \/ cur' # NoMsg /\ pc'[Lsn] \in {"loop", "deliverLock", "isOwned"}
              \/ cur' = cur /\ pc'[Lsn] = "closeLock"
        /\ pc[Lsn] \in {"closeLock", "closeWrite", "closeWriting", "stopped"} =>
              /\ pc'[Lsn] \in {"closeLock", "closeWrite", "closeWriting", "stopped"}
              /\ cur' = cur
              /\ \A k \in CallIds : Len(respChan'[k]) <= Len(respChan[k])
              /\ jobObj' = jobObj
        /\ pc[Lsn] = "stopped" => pc'[Lsn] = "stopped"
        /\ (pc[Lsn] = "stopped" => isClosed /\ closeChan)'
        /\ isClosed => isClosed'
        /\ closeChan => closeChan'
        /\ connClosed => connClosed'
      ]_vars

\* listen has run the shutdown itself after a read error, could not write
\* the close frame, and has stopped while a Call still waits.
C21_Witness ==
    /\ pc[Lsn] = "stopped"
    /\ err[Lsn] = "close frame not written"
    /\ isClosed /\ closeChan
    /\ \E p \in Callers : pc[p] = "wait"

\* listen is at line 269, where it reads the job map and the Job's
\* Callback without j.mu.
UnlockedJobRead == pc[Lsn] = "callback"

\* Caller p is about to write the job map (AddJob, under j.mu) or the
\* Callback of the Job listen looks at (line 320, without a lock).
JobWriteNext(p) ==
    \/ pc[p] = "addJob"
    \/ pc[p] = "setCallback" /\ job[p] = jobs[cur.id]

\* C22: the pending map and the call-ID counter change only in a step that
\* takes the free client lock, the job map and the owned set only in a step
\* that takes the free jobs lock, and listen is never about to read the job
\* map or a Job's fields without the jobs lock while a caller is about to
\* write them.
C22_NoUnlockedAccess ==
    [][ /\ (pending' # pending \/ callID' # callID) => mu = Free
        /\ (jobs' # jobs \/ owned' # owned) => jmu = Free
        /\ ~(UnlockedJobRead /\ \E p \in JobCallers : JobWriteNext(p))
      ]_vars

\* C23: Ping makes one Call, of core.ping with empty params, and no other;
\* when the Call returned a response, Ping returns the string of its
\* "result" and no error if the result is a string, and an error and the
\* empty string otherwise.
C23_PingRoundTrip ==
    [][ \A p \in JobCallers :
           /\ (pc[p] = "idle" /\ pc'[p] # "idle" /\ op'[p] = "Ping") =>
                  /\ pc'[p] = "write"
                  /\ callID' = callID + 1
                  /\ req'[p] = [method |-> "core.ping", params |-> "[]"]
           /\ (op[p] = "Ping" /\ pc[p] # "idle" /\ pc'[p] # pc[p]) =>
                  (callID' = callID /\ myID'[p] = IF pc'[p] = "idle" THEN 0 ELSE myID[p])
           /\ (op[p] = "Ping" /\ pc[p] = "parse" /\ pc'[p] = "done" /\ err[p] = "") =>
                  IF ~res[p].hasError /\ res[p].result = NotNum
                  THEN err'[p] = "" /\ PingResult(res[p]) = res[p].fres
                  ELSE err'[p] # "" /\ PingResult(res[p]) = ""
      ]_vars

\* The first call of the client was Ping's, the server answered it with the
\* string "pong", and Ping has returned without error.
C23_Witness ==
    \E p \in JobCallers :
        /\ pc[p] = "done" /\ op[p] = "Ping" /\ err[p] = ""
        /\ myID[p] = 1 /\ callID = 1
        /\ res[p].id = 1 /\ PingResult(res[p]) = "pong"

\* C24: the one Call that Login makes is auth.login with [username,
\* password] when username and password are both given, and
\* auth.login_with_api_key with [apiKey] otherwise.
C24_LoginMethodChoice ==
    [][ \A p \in JobCallers :
           (pc[p] = "idle" /\ pc'[p] = "write" /\ op'[p] = "Login") =>
               /\ callID' = callID + 1
               /\ IF cred'[p].username /\ cred'[p].password
                  THEN req'[p] = [method |-> "auth.login",
                                  params |-> "[username, password]"]
                  ELSE req'[p] = [method |-> "auth.login_with_api_key",
                                  params |-> "[apiKey]"]
      ]_vars

\* C25: when listen tests the ownership of a notification whose job ID is
\* the result of a response that a CallWithJob has already received, it
\* goes on to apply the notification to the Job.
C25_NoLostNotification ==
    [][ \A p \in JobCallers :
           (/\ pc[Lsn] = "isOwned" /\ pc'[Lsn] # "isOwned" /\ ~crashed'
            /\ IsJobOp(op[p])
            /\ pc[p] \in {"cleanup", "cwj", "addJob", "addOwned", "setCallback", "done"}
            /\ err[p] = "" /\ res[p].kind = "resp" /\ ~res[p].hasError
            /\ res[p].result = cur.id) =>
               pc'[Lsn] = "update"
      ]_vars

\* Job k was created by a CallWithJob with a non-nil callback: the callback
\* is attached already or its creator is about to attach it.
HasCallbackArg(k) ==
    /\ k # 0
    /\ \/ jobObj[k].Callback
       \/ \E p \in JobCallers : job[p] = k /\ op[p] = "CallWithJob"

\* C26: when listen has stored a notification's state in a Job created
\* with a callback, it invokes the callback before it ends the handling of
\* that notification, and it is never stuck in the send of the completion
\* signal of such a Job with the callback still to come.
C26_NoSilentUpdate ==
    [][ /\ \A k \in CallIds :
              (/\ pc[Lsn] = "callback" /\ pc'[Lsn] # "callback"
               /\ jobs[cur.id] = k /\ HasCallbackArg(k)
               /\ jobObj[k].State = cur.state /\ jobObj[k].Progress = cur.percent) =>
                  pc'[Lsn] = "inCallback"
        /\ ~(DoneSendStuck /\ HasCallbackArg(jobs[cur.id]))
      ]_vars

\* Close has set the flag and the invocation that set it has returned.
ClosedDone ==
    /\ isClosed
    /\ \A t \in Threads : pc[t] \notin {"closeWrite", "closeWriting"}

\* C27: whenever the closed flag is set the close signal is raised, and
\* once the Close that set the flag has returned the transport is
\* disconnected, whether the close frame was written or not.
C27_ShutdownComplete ==
    /\ isClosed => closeChan
    /\ ClosedDone => connClosed

\* C28: once the Close that set the flag has returned, listen puts no
\* further message into a response channel and takes no further message
\* from the transport.
C28_QuietAfterClose ==
    [][ ClosedDone =>
          /\ \A k \in CallIds : Len(respChan'[k]) <= Len(respChan[k])
          /\ pc[Lsn] = "read" => pc'[Lsn] \in {"read", "closeLock"}
      ]_vars

\* C29: a Call that was waiting with an empty response channel when the
\* closed flag was set ends with the timeout error and without a payload,
\* and the steps of Close leave the pending map and the response channels
\* as they are.
C29_CloseLeavesPending ==
    \A p \in Callers :
        (myID[p] \in atClose /\ pc[p] \in {"cleanup", "done"}) =>
            (err[p] = "call timed out" /\ res[p] = NoMsg)

\* C30: a collection_update is never put into a response channel nor
\* returned by a Call, and a response is never handled as a notification,
\* whatever its id: listen handles only collection_update messages on its
\* job path and only responses on its delivery path, and a step of the
\* delivery path leaves the job map, the owned set and every Job as they
\* are.
C30_KindsKeptApart ==
    [][ /\ \A k \in CallIds : \A i \in 1..Len(respChan[k]) : respChan[k][i].kind = "resp"
        /\ \A p \in Callers : res[p] # NoMsg => res[p].kind = "resp"
        /\ pc[Lsn] \in {"isOwned", "update", "sendDone", "callback", "inCallback"} =>
               cur.kind = "update"
        /\ pc[Lsn] \in {"deliverLock", "deliver"} =>
               /\ cur.kind = "resp"
               /\ pc'[Lsn] # pc[Lsn] => UNCHANGED <<jobs, owned, jobObj>>
      ]_vars

\* listen handles a collection_update whose id is the ID of a pending call.
C30_Witness == pc[Lsn] = "isOwned" /\ cur.kind = "update" /\ cur.id \in pending

\* C31: a response without a numeric id ends the iteration at once, and a
\* response whose id has no pending call when listen looks it up ends it
\* after the lookup; in both cases the pending map, the response channels,
\* the job map, the owned set and the Jobs are unchanged and listen is back
\* at the top of its loop.
C31_UnmatchedDropped ==
    [][ /\ (pc[Lsn] = "read" /\ pc'[Lsn] # "read"
             /\ cur'.kind = "resp" /\ cur'.id = NoId) =>
               /\ pc'[Lsn] = "loop"
               /\ UNCHANGED <<pending, respChan, jobs, owned, jobObj>>
        /\ (pc[Lsn] = "deliverLock" /\ pc'[Lsn] # "deliverLock") =>
               /\ pc'[Lsn] = "deliver"
               /\ UNCHANGED <<pending, respChan, jobs, owned, jobObj>>
        /\ (pc[Lsn] = "deliver" /\ pc'[Lsn] # "deliver" /\ cur.id \notin pending) =>
               /\ pc'[Lsn] = "loop" /\ mu' = Free /\ ~crashed'
               /\ UNCHANGED <<pending, respChan, jobs, owned, jobObj>>
      ]_vars

\* listen holds c.mu for the lookup of a response whose id has no pending
\* call, while another call is pending and a job is tracked.
C31_Witness ==
    /\ pc[Lsn] = "deliver" /\ cur.kind = "resp"
    /\ cur.id \notin pending /\ pending # {}
    /\ owned # {}

\* C32: a step of a caller goroutine that leaves a job ID in the job map
\* leaves the state, progress, result and finished flag recorded under
\* that ID as they are.
C32_CallersLeaveJobState ==
    [][ \A p \in JobCallers : \A j \in JobIds :
           (pc'[p] # pc[p] /\ jobs[j] # 0 /\ jobs'[j] # 0) =>
              /\ jobObj'[jobs'[j]].State = jobObj[jobs[j]].State
              /\ jobObj'[jobs'[j]].Progress = jobObj[jobs[j]].Progress
              /\ jobObj'[jobs'[j]].Result = jobObj[jobs[j]].Result
              /\ jobObj'[jobs'[j]].Finished = jobObj[jobs[j]].Finished
      ]_vars

\* C33: every Job in the job map is finished exactly when its state is
\* SUCCESS or FAILED, and has a result only when it is finished.
C33_FinishedIffTerminal ==
    \A j \in JobIds :
        jobs[j] # 0 =>
            /\ jobObj[jobs[j]].Finished <=> Terminal(jobObj[jobs[j]].State)
            /\ jobObj[jobs[j]].Result # "nil" => jobObj[jobs[j]].Finished

\* C34: a step that removes job j's record from the job map leaves the
\* other records, the owned set and every Job as they are; when listen
\* runs UpdateJobState for an ID without a record it changes nothing,
\* keeps no lock, sends no completion signal and goes on, and when it then
\* finds no record for the callback it invokes none and starts the next
\* iteration.
C34_RemovedJobIgnored ==
    [][ /\ \A j \in JobIds :
              (jobs[j] # 0 /\ jobs'[j] = 0) =>
                 /\ \A i \in JobIds \ {j} : jobs'[i] = jobs[i]
                 /\ UNCHANGED <<owned, jobObj>>
        /\ (pc[Lsn] = "update" /\ pc'[Lsn] # "update" /\ jobs[cur.id] = 0) =>
                 /\ pc'[Lsn] = "callback" /\ ~crashed'
                 /\ UNCHANGED <<jobs, owned, jobObj, jmu, err, cur>>
        /\ (pc[Lsn] = "callback" /\ pc'[Lsn] # "callback" /\ jobs[cur.id] = 0) =>
                 /\ pc'[Lsn] = "loop"
                 /\ UNCHANGED <<jobs, owned, jobObj, jmu, err>>
      ]_vars

\* listen has run UpdateJobState for a terminal notification of an owned
\* job whose record was removed.
C34_Witness ==
    /\ pc[Lsn] = "callback" /\ cur.kind = "update" /\ Terminal(cur.state)
    /\ cur.id \in owned /\ jobs[cur.id] = 0

\* C35: a Login without an API key and without both username and password
\* ends at once with the error "either username/password or API key must
\* be provided": the step leaves the call-ID counter, the pending map, the
\* response channels and the transport's writers as they are, and the
\* operation never has a call ID, a request, a write or a response.
C35_LoginNeedsCredentials ==
    [][ \A p \in JobCallers :
           /\ (/\ pc[p] = "idle" /\ pc'[p] # "idle" /\ op'[p] = "Login"
               /\ ~cred'[p].apiKey /\ ~(cred'[p].username /\ cred'[p].password)) =>
                  /\ pc'[p] = "done"
                  /\ err'[p] = "either username/password or API key must be provided"
                  /\ UNCHANGED <<callID, issued, pending, respChan, writers, mu>>
           /\ (/\ op[p] = "Login"
               /\ ~cred[p].apiKey /\ ~(cred[p].username /\ cred[p].password)) =>
                  /\ pc[p] = "done"
                  /\ myID[p] = 0 /\ req[p] = NoReq /\ res[p] = NoMsg
                  /\ p \notin writers
      ]_vars

\* A Login with a username and no password has returned its error after
\* an earlier call of the client.
C35_Witness ==
    \E p \in JobCallers :
        /\ op[p] = "Login" /\ pc[p] = "done"
        /\ cred[p].username /\ ~cred[p].password /\ ~cred[p].apiKey
        /\ err[p] = "either username/password or API key must be provided"
        /\ callID > 0

====
